---- MODULE Spec2Model ----
(***************************************************************************)
(* A model of toy_cases/jssp/notebooks/helper.py: the four QUBO builders,  *)
(* the translation of the matrix into the solver's objective, the schedule *)
(* extractor and the schedule validators.                                  *)
(*                                                                         *)
(* Numbers are integers.  A solver output is modelled in halves (the value *)
(* h stands for h/2) so that round() is a real conversion.  A task_map is  *)
(* a function from task id to the tuple <<job, task_idx, machine,          *)
(* duration>>; its items() are visited in increasing task id.  var_index   *)
(* is a function whose domain is the set of (task, time) keys that are     *)
(* present; it never holds None as a value.                                *)
(***************************************************************************)
EXTENDS Integers, Sequences, FiniteSets, TLC

\* ---------------------------------------------------------------- bounds
MaxTasks == 3
MaxT == 3
MaxDur == 2
MaxPenalty == 2
MaxVars == 6
MaxHalf == 3
MaxSched == 3

Jobs == {0, 1}
Machines == {0, 1}

VARIABLES num_tasks, T_max, task_map, var_index,    \* the caller's inputs
          penalty_config, Q, applied, last, raised, qp, \* building the objective
          stage, result, schedule,                    \* solving and extracting
          checked, conflicts, violations, unique_violations, makespan

inputs == <<num_tasks, T_max, task_map, var_index>>
building == <<penalty_config, Q, applied, last, raised, qp>>
validation == <<checked, conflicts, violations, unique_violations, makespan>>
vars == <<inputs, building, stage, result, schedule, validation>>

\* ---------------------------------------------------------------- inputs
Tasks(n) == 0 .. (n - 1)
Times(T) == 0 .. (T - 1)
Keys(n, T) == Tasks(n) \X Times(T)

\* The two layouts of the flat variable index used by the model.
TaskMajor(n, T) == [key \in Keys(n, T) |-> key[1] * T + key[2]]
TimeMajor(n, T) == [key \in Keys(n, T) |-> key[2] * n + key[1]]

\* Jobs and machines are interchangeable labels: task 0 is taken to be in
\* job 0 on machine 0.
TaskMaps(n) ==
    {tm \in [Tasks(n) -> Jobs \X {0} \X Machines \X (1 .. MaxDur)] :
        tm[0][1] = 0 /\ tm[0][3] = 0}

\* task_idx is the position of the task among the tasks of its job.
WithOperationIndex(tm) ==
    [k \in DOMAIN tm |->
        <<tm[k][1],
          Cardinality({k0 \in DOMAIN tm : k0 < k /\ tm[k0][1] = tm[k][1]}),
          tm[k][3], tm[k][4]>>]

\* ---------------------------------------------------------------- matrix
Indices(nv) == 0 .. (nv - 1)

\* np.zeros((num_vars, num_vars))
Zeros(nv) == [ij \in Indices(nv) \X Indices(nv) |-> 0]

Has(vi, k, t) == <<k, t>> \in DOMAIN vi

\* What a builder leaves behind: the matrix (updated in place up to the
\* point it stopped) and whether it stopped by raising KeyError.
Returned(Q0) == [Q |-> Q0, raised |-> FALSE]
KeyError(Q0) == [Q |-> Q0, raised |-> TRUE]

\* ------------------------------------------ apply_unique_start_constraint
\* Q[idx_1, idx_1] -= penalty
UniqueDiagonal(Q0, idx_1, penalty) ==
    [Q0 EXCEPT ![<<idx_1, idx_1>>] = @ - penalty]

\* Q[idx_1, idx_2] += penalty
AddPenalty(Q0, idx_1, idx_2, penalty) ==
    [Q0 EXCEPT ![<<idx_1, idx_2>>] = @ + penalty]

\* The loops over k, t1 and t2, flattened: c counts the triples <<k, t1, t2>>
\* in loop order.  t2 = t1 stands for the body of the t1 loop before its
\* inner loop (the diagonal term), t2 > t1 for an inner iteration.
RECURSIVE UniqueLoop(_, _, _, _, _, _)
UniqueLoop(Q0, vi, n, T, penalty, c) ==
    IF c >= n * T * T THEN Returned(Q0)
    ELSE LET k == c \div (T * T)
             t1 == (c \div T) % T
             t2 == c % T
         IN  IF t2 < t1 THEN UniqueLoop(Q0, vi, n, T, penalty, c + 1)
             ELSE IF ~Has(vi, k, t2) THEN KeyError(Q0)
             ELSE IF t2 = t1
                  THEN UniqueLoop(UniqueDiagonal(Q0, vi[<<k, t1>>], penalty),
                                  vi, n, T, penalty, c + 1)
             ELSE IF t1 # t2
                  THEN UniqueLoop(AddPenalty(Q0, vi[<<k, t1>>], vi[<<k, t2>>], penalty),
                                  vi, n, T, penalty, c + 1)
             ELSE UniqueLoop(Q0, vi, n, T, penalty, c + 1)

apply_unique_start_constraint(Q0, vi, n, T, penalty) ==
    UniqueLoop(Q0, vi, n, T, penalty, 0)

\* -------------------------------------- apply_machine_conflict_constraint
\* if 0 < (t2 - t1) < d1
MachineOverlap(t1, t2, d1) == 0 < (t2 - t1) /\ (t2 - t1) < d1

\* The loops over k1, k2, t1 and t2, flattened in loop order.
RECURSIVE MachineLoop(_, _, _, _, _, _)
MachineLoop(Q0, vi, tm, T, penalty, c) ==
    LET n == Cardinality(DOMAIN tm)
    IN  IF c >= n * n * T * T THEN Returned(Q0)
        ELSE LET k1 == c \div (n * T * T)
                 k2 == (c \div (T * T)) % n
                 t1 == (c \div T) % T
                 t2 == c % T
             IN  IF k1 = k2 \/ tm[k1][3] # tm[k2][3]
                        \/ ~MachineOverlap(t1, t2, tm[k1][4])
                 THEN MachineLoop(Q0, vi, tm, T, penalty, c + 1)
                 ELSE IF ~Has(vi, k1, t1) \/ ~Has(vi, k2, t2) THEN KeyError(Q0)
                 ELSE MachineLoop(AddPenalty(Q0, vi[<<k1, t1>>], vi[<<k2, t2>>], penalty),
                                  vi, tm, T, penalty, c + 1)

apply_machine_conflict_constraint(Q0, vi, tm, T, penalty) ==
    MachineLoop(Q0, vi, tm, T, penalty, 0)

\* -------------------------------------------- apply_precedence_constraint
\* list.sort() of the task ids of one job
RECURSIVE SortedSeq(_)
SortedSeq(S) ==
    IF S = {} THEN <<>>
    ELSE LET least == CHOOSE x \in S : \A y \in S : x <= y
         IN  <<least>> \o SortedSeq(S \ {least})

job_tasks(tm) ==
    [job \in {tm[k][1] : k \in DOMAIN tm} |->
        SortedSeq({k \in DOMAIN tm : tm[k][1] = job})]

RECURSIVE SeqOf(_)
SeqOf(S) ==
    IF S = {} THEN <<>>
    ELSE LET x == CHOOSE y \in S : TRUE IN <<x>> \o SeqOf(S \ {x})

\* Mutant: every two tasks of a job are paired, not only neighbours.
RECURSIVE PrecedenceAllPairs(_, _)
PrecedenceAllPairs(jt, jobs) ==
    IF jobs = {} THEN <<>>
    ELSE LET job == CHOOSE x \in jobs : \A y \in jobs : x <= y
             ks == {jt[job][o] : o \in DOMAIN jt[job]}
         IN  SeqOf({pr \in ks \X ks : pr[1] < pr[2]})
             \o PrecedenceAllPairs(jt, jobs \ {job})

\* The pairs (k1, k2) of the operation_idx loop, job after job.  The order
\* of the jobs does not matter: this builder never raises.
RECURSIVE PrecedencePairs(_, _)
PrecedencePairs(jt, jobs) ==
    IF jobs = {} THEN <<>>
    ELSE LET job == CHOOSE x \in jobs : \A y \in jobs : x <= y
         IN  [o \in 1 .. (Len(jt[job]) - 1) |-> <<jt[job][o], jt[job][o + 1]>>]
             \o PrecedencePairs(jt, jobs \ {job})

\* Mutant: a successor that starts when the predecessor ends is penalised.
PrecedenceOverlapInclusive(t1, t2, duration_1) == t2 <= t1 + duration_1

\* if t2 < t1 + duration_1
PrecedenceOverlap(t1, t2, duration_1) == t2 < t1 + duration_1

\* var_index.get gives None for an absent key and the update is skipped.
RECURSIVE PrecedenceLoop(_, _, _, _, _, _, _)
PrecedenceLoop(Q0, vi, tm, T, penalty, pairs, c) ==
    IF c >= Len(pairs) * T * T THEN Returned(Q0)
    ELSE LET k1 == pairs[(c \div (T * T)) + 1][1]
             k2 == pairs[(c \div (T * T)) + 1][2]
             t1 == (c \div T) % T
             t2 == c % T
         IN  IF /\ PrecedenceOverlap(t1, t2, tm[k1][4])
                /\ Has(vi, k1, t1)
                /\ Has(vi, k2, t2)
             THEN PrecedenceLoop(AddPenalty(Q0, vi[<<k1, t1>>], vi[<<k2, t2>>], penalty),
                                 vi, tm, T, penalty, pairs, c + 1)
             ELSE PrecedenceLoop(Q0, vi, tm, T, penalty, pairs, c + 1)

apply_precedence_constraint(Q0, vi, tm, T, penalty) ==
    LET jt == job_tasks(tm)
    IN  PrecedenceLoop(Q0, vi, tm, T, penalty, PrecedencePairs(jt, DOMAIN jt), 0)

\* ----------------------------------------------- apply_makespan_objective
\* Mutant: the term is assigned, not added.
MakespanTermOverwrite(Q0, idx, weight, t, duration) ==
    [Q0 EXCEPT ![<<idx, idx>>] = weight * (t + duration)]

\* Q[idx, idx] += weight * (t + duration)
MakespanTerm(Q0, idx, weight, t, duration) ==
    [Q0 EXCEPT ![<<idx, idx>>] = @ + weight * (t + duration)]

RECURSIVE MakespanLoop(_, _, _, _, _, _, _)
MakespanLoop(Q0, vi, tm, n, T, weight, c) ==
    IF c >= n * T THEN Returned(Q0)
    ELSE LET k == c \div T
             t == c % T
         IN  IF ~Has(vi, k, t) THEN KeyError(Q0)
             ELSE MakespanLoop(MakespanTerm(Q0, vi[<<k, t>>], weight, t, tm[k][4]),
                               vi, tm, n, T, weight, c + 1)

apply_makespan_objective(Q0, vi, tm, n, T, weight) ==
    MakespanLoop(Q0, vi, tm, n, T, weight, 0)

\* ------------------------------- solve_and_visualize_jssp: the objective
\* linear: the diagonal.  quadratic: the nonzero entries above the diagonal.
Linear(Q0, nv) == [i \in Indices(nv) |-> Q0[<<i, i>>]]

QuadraticKeys(Q0, nv) ==
    {ij \in Indices(nv) \X Indices(nv) : ij[1] + 1 <= ij[2] /\ Q0[ij] # 0}

Quadratic(Q0, nv) == [ij \in QuadraticKeys(Q0, nv) |-> Q0[ij]]

NoQP == [built |-> FALSE]

\* ------------------------------------------- extract_schedule_from_result
\* Python's round() of h/2: to the nearest integer, a tie to the even one.
Round(h) ==
    LET q == h \div 2
    IN  IF h % 2 = 0 THEN q ELSE IF q % 2 = 0 THEN q ELSE q + 1

\* The record appended for task k starting at t.
Entry(tm, k, t) ==
    [task |-> k, job |-> tm[k][1], task_idx |-> tm[k][2], machine |-> tm[k][3],
     start |-> t, duration |-> tm[k][4], end |-> t + tm[k][4]]

\* sorted(..., key=...): a stable sort.  Insert puts x behind every element
\* whose key is not larger.
RECURSIVE Insert(_, _, _)
Insert(sorted, x, field) ==
    IF sorted = <<>> THEN <<x>>
    ELSE IF Head(sorted)[field] <= x[field]
         THEN <<Head(sorted)>> \o Insert(Tail(sorted), x, field)
         ELSE <<x>> \o sorted

RECURSIVE SortedBy(_, _)
SortedBy(seq, field) ==
    IF seq = <<>> THEN <<>>
    ELSE Insert(SortedBy(SubSeq(seq, 1, Len(seq) - 1), field), seq[Len(seq)], field)

\* The loops over k and t, flattened in loop order.
RECURSIVE ExtractLoop(_, _, _, _, _, _, _)
ExtractLoop(res, vi, tm, n, T, acc, c) ==
    IF c >= n * T THEN [schedule |-> acc, raised |-> FALSE]
    ELSE LET k == c \div T
             t == c % T
         IN  IF ~Has(vi, k, t) THEN [schedule |-> acc, raised |-> TRUE]
             ELSE IF Round(res[vi[<<k, t>>]]) = 1
                  THEN ExtractLoop(res, vi, tm, n, T, Append(acc, Entry(tm, k, t)), c + 1)
                  ELSE ExtractLoop(res, vi, tm, n, T, acc, c + 1)

\* Mutant: the scan of a task stops at its first start time.
RECURSIVE ExtractFirstLoop(_, _, _, _, _, _, _)
ExtractFirstLoop(res, vi, tm, n, T, acc, c) ==
    IF c >= n * T THEN [schedule |-> acc, raised |-> FALSE]
    ELSE LET k == c \div T
             t == c % T
         IN  IF ~Has(vi, k, t) THEN [schedule |-> acc, raised |-> TRUE]
             ELSE IF /\ Round(res[vi[<<k, t>>]]) = 1
                     /\ \A i \in DOMAIN acc : acc[i].task # k
                  THEN ExtractFirstLoop(res, vi, tm, n, T, Append(acc, Entry(tm, k, t)), c + 1)
                  ELSE ExtractFirstLoop(res, vi, tm, n, T, acc, c + 1)

extract_first_start_only(res, vi, tm, n, T) ==
    LET out == ExtractFirstLoop(res, vi, tm, n, T, <<>>, 0)
    IN  IF out.raised THEN out
        ELSE [schedule |-> SortedBy(out.schedule, "start"), raised |-> FALSE]

extract_schedule_from_result(res, vi, tm, n, T) ==
    LET out == ExtractLoop(res, vi, tm, n, T, <<>>, 0)
    IN  IF out.raised THEN out
        ELSE [schedule |-> SortedBy(out.schedule, "start"), raised |-> FALSE]

\* ---------------------------------------------------------- the validators
\* The adjacent pairs of a sorted list whose first end exceeds the second
\* start, in list order.
RECURSIVE AdjacentOverlaps(_, _)
AdjacentOverlaps(tasks, i) ==
    IF i > Len(tasks) - 1 THEN <<>>
    ELSE (IF tasks[i].end > tasks[i + 1].start
          THEN <<(<<tasks[i], tasks[i + 1]>>)>>
          ELSE <<>>) \o AdjacentOverlaps(tasks, i + 1)

\* Mutant: the tasks of the machine are left in schedule order.
machine_tasks_unsorted(sched, machine) ==
    LET OnMachine(t) == t.machine = machine
    IN  SelectSeq(sched, OnMachine)

machine_tasks(sched, machine) ==
    LET OnMachine(t) == t.machine = machine
    IN  SortedBy(SelectSeq(sched, OnMachine), "start")

\* for machine in {0, 1}: machine 0, then machine 1
check_machine_conflicts(sched) ==
    AdjacentOverlaps(machine_tasks(sched, 0), 1)
    \o AdjacentOverlaps(machine_tasks(sched, 1), 1)

\* The keys of by_job, in the order setdefault inserted them.
RECURSIVE JobsInOrder(_)
JobsInOrder(sched) ==
    IF sched = <<>> THEN <<>>
    ELSE LET before == JobsInOrder(SubSeq(sched, 1, Len(sched) - 1))
             job == sched[Len(sched)].job
         IN  IF \E i \in DOMAIN before : before[i] = job
             THEN before ELSE Append(before, job)

sorted_tasks(sched, job) ==
    LET InJob(t) == t.job = job
    IN  SortedBy(SelectSeq(sched, InJob), "task_idx")

RECURSIVE PrecedenceScan(_, _)
PrecedenceScan(sched, jobs) ==
    IF jobs = <<>> THEN <<>>
    ELSE AdjacentOverlaps(sorted_tasks(sched, Head(jobs)), 1)
         \o PrecedenceScan(sched, Tail(jobs))

check_precedence_violations(sched) == PrecedenceScan(sched, JobsInOrder(sched))

\* Counter(task["task"] for task in schedule).get(task_id, 0)
task_counts(sched, task_id) ==
    Cardinality({i \in DOMAIN sched : sched[i].task = task_id})

RECURSIVE UniqueScan(_, _, _)
UniqueScan(sched, n, task_id) ==
    IF task_id >= n THEN <<>>
    ELSE (IF task_counts(sched, task_id) # 1
          THEN <<(<<task_id, task_counts(sched, task_id)>>)>>
          ELSE <<>>) \o UniqueScan(sched, n, task_id + 1)

\* Mutant: only a task that occurs more than once is flagged.
RECURSIVE UniqueScanMultiple(_, _, _)
UniqueScanMultiple(sched, n, task_id) ==
    IF task_id >= n THEN <<>>
    ELSE (IF task_counts(sched, task_id) > 1
          THEN <<(<<task_id, task_counts(sched, task_id)>>)>>
          ELSE <<>>) \o UniqueScanMultiple(sched, n, task_id + 1)

check_unique_start_multiple_only(sched, n) == UniqueScanMultiple(sched, n, 0)

check_unique_start_constraint(sched, n) == UniqueScan(sched, n, 0)

\* max() of an empty sequence raises ValueError.
compute_makespan(sched) ==
    IF sched = <<>> THEN [raised |-> TRUE]
    ELSE [raised |-> FALSE,
          value |-> CHOOSE e \in {sched[i].end : i \in DOMAIN sched} :
                        \A i \in DOMAIN sched : sched[i].end <= e]

\* ------------------------------------------------------------- the inputs
Builders == {"one_hot", "machine", "precedence", "makespan"}

num_vars == num_tasks * T_max

\* Nothing built, solved or validated yet.  applied is the set of builders
\* already called and last the most recent of them.
Fresh ==
    /\ penalty_config = [b \in Builders |-> 0]
    /\ Q = Zeros(num_vars)
    /\ applied = {}
    /\ last = "none"
    /\ raised = FALSE
    /\ qp = NoQP
    /\ result = <<>>
    /\ checked = {}
    /\ conflicts = <<>>
    /\ violations = <<>>
    /\ unique_violations = <<>>
    /\ makespan = [raised |-> FALSE]

\* --------------------------------------------- building the QUBO matrix
\* At least two time slots, so that every builder has pairs of start times.
InitBuild ==
    /\ num_tasks \in 1 .. MaxTasks
    /\ T_max \in 2 .. MaxT
    /\ num_tasks * T_max <= MaxVars
    /\ task_map \in {WithOperationIndex(tm) : tm \in TaskMaps(num_tasks)}
    /\ var_index \in {TaskMajor(num_tasks, T_max), TimeMajor(num_tasks, T_max)}
    /\ stage = "build"
    /\ schedule = <<>>
    /\ Fresh

\* The penalties and the weight a caller passes: the smallest and the
\* largest.
Penalties == {1, MaxPenalty}

Apply(b, penalty, out) ==
    /\ stage = "build"
    /\ b \notin applied
    /\ ~raised
    /\ Q' = out.Q
    /\ raised' = out.raised
    /\ applied' = applied \cup {b}
    /\ last' = b
    /\ penalty_config' = [penalty_config EXCEPT ![b] = penalty]
    /\ UNCHANGED <<inputs, qp, stage, result, schedule, validation>>

UniqueStart ==
    \E penalty \in Penalties :
        Apply("one_hot", penalty,
              apply_unique_start_constraint(Q, var_index, num_tasks, T_max, penalty))

MachineConflict ==
    \E penalty \in Penalties :
        Apply("machine", penalty,
              apply_machine_conflict_constraint(Q, var_index, task_map, T_max, penalty))

Precedence ==
    \E penalty \in Penalties :
        Apply("precedence", penalty,
              apply_precedence_constraint(Q, var_index, task_map, T_max, penalty))

Makespan ==
    \E weight \in Penalties :
        Apply("makespan", weight,
              apply_makespan_objective(Q, var_index, task_map, num_tasks, T_max, weight))

\* qp.minimize(linear=linear, quadratic=quadratic)
BuildQP ==
    /\ stage = "build"
    /\ applied = Builders
    /\ ~raised
    /\ ~qp.built
    /\ qp' = [built |-> TRUE,
              linear |-> Linear(Q, num_vars),
              quadratic |-> Quadratic(Q, num_vars)]
    /\ UNCHANGED <<inputs, penalty_config, Q, applied, last, raised, stage,
                   result, schedule, validation>>

NextBuild ==
    \/ UniqueStart
    \/ MachineConflict
    \/ Precedence
    \/ Makespan
    \/ BuildQP

\* The builders called on a zero matrix, each once, in any order, and the
\* objective made of the result.
SpecBuild == InitBuild /\ [][NextBuild]_vars

\* ------------------------------------- an index that lacks one of the keys
Without(vi, key) == [x \in (DOMAIN vi) \ {key} |-> vi[x]]

InitPartial ==
    /\ num_tasks \in 2 .. MaxTasks
    /\ T_max \in 2 .. MaxT
    /\ num_tasks * T_max <= MaxVars
    /\ task_map \in {WithOperationIndex(tm) : tm \in TaskMaps(num_tasks)}
    /\ var_index \in {Without(TaskMajor(num_tasks, T_max), key) :
                         key \in Keys(num_tasks, T_max)}
    /\ stage = "build"
    /\ schedule = <<>>
    /\ Fresh

\* No objective is made here: the unique-start builder raises on any absent
\* key.
NextPartial ==
    \/ UniqueStart
    \/ MachineConflict
    \/ Precedence
    \/ Makespan

SpecPartial == InitPartial /\ [][NextPartial]_vars

\* ------------------------------------- the solver's output and its checks
\* task_idx runs against the task ids of the job.
WithReversedIndex(tm) ==
    [k \in DOMAIN tm |->
        <<tm[k][1],
          Cardinality({k0 \in DOMAIN tm : k0 > k /\ tm[k0][1] = tm[k][1]}),
          tm[k][3], tm[k][4]>>]

\* The extractor and the validators of a job's order and of unique starts
\* do not read the machine: the tasks alternate between the two.
JobMaps(n) == {tm \in TaskMaps(n) : \A k \in DOMAIN tm : tm[k][3] = k % 2}

Init ==
    /\ num_tasks \in 1 .. MaxTasks
    /\ T_max \in 1 .. MaxT
    /\ num_tasks * T_max <= MaxVars
    /\ task_map \in {WithOperationIndex(tm) : tm \in JobMaps(num_tasks)}
                    \cup {WithReversedIndex(tm) : tm \in JobMaps(num_tasks)}
    /\ var_index = TaskMajor(num_tasks, T_max)
    /\ stage = "build"
    /\ schedule = <<>>
    /\ Fresh

\* result = optimizer.solve(qp): one of the vectors of outputs, in halves.
Solved(outputs) ==
    /\ stage = "build"
    /\ ~raised
    /\ result' \in outputs
    /\ stage' = "solved"
    /\ UNCHANGED <<inputs, building, schedule, validation>>

\* The solver's answer for binary variables: any vector of 0.0 and 1.0.
Solve ==
    /\ applied # {}
    /\ Solved([Indices(num_vars) -> {0, 2}])

\* Any vector of the right length, as the extractor accepts it.
SolveAny == Solved([Indices(num_vars) -> 0 .. MaxHalf])

Extract ==
    /\ stage = "solved"
    /\ LET out == extract_schedule_from_result(result, var_index, task_map,
                                               num_tasks, T_max)
       IN  /\ schedule' = out.schedule
           /\ stage' = IF out.raised THEN "KeyError" ELSE "extracted"
    /\ UNCHANGED <<inputs, building, result, validation>>

Check(name) ==
    /\ stage = "extracted"
    /\ name \notin checked
    /\ checked' = checked \cup {name}
    /\ UNCHANGED <<inputs, building, stage, result, schedule>>

CheckMachineConflicts ==
    /\ Check("machine")
    /\ conflicts' = check_machine_conflicts(schedule)
    /\ UNCHANGED <<violations, unique_violations, makespan>>

CheckPrecedenceViolations ==
    /\ Check("precedence")
    /\ violations' = check_precedence_violations(schedule)
    /\ UNCHANGED <<conflicts, unique_violations, makespan>>

CheckUniqueStart ==
    /\ Check("one_hot")
    /\ unique_violations' = check_unique_start_constraint(schedule, num_tasks)
    /\ UNCHANGED <<conflicts, violations, makespan>>

ComputeMakespan ==
    /\ Check("makespan")
    /\ makespan' = compute_makespan(schedule)
    /\ UNCHANGED <<conflicts, violations, unique_violations>>

Next ==
    \/ Precedence
    \/ Solve
    \/ Extract
    \/ CheckPrecedenceViolations

\* The precedence term alone, any 0/1 answer of the solver, the schedule
\* read from it and the check of the order within the jobs.
Spec == Init /\ [][Next]_vars

\* ------------------------------------------ the extractor on any vector
InitExtract ==
    /\ num_tasks \in 1 .. MaxTasks
    /\ T_max \in 1 .. MaxT
    /\ num_tasks * T_max <= MaxVars
    /\ task_map \in {WithOperationIndex(tm) : tm \in JobMaps(num_tasks)}
    /\ var_index = TaskMajor(num_tasks, T_max)
    /\ stage = "build"
    /\ schedule = <<>>
    /\ Fresh

NextExtract ==
    \/ SolveAny
    \/ Extract
    \/ CheckUniqueStart

SpecExtract == InitExtract /\ [][NextExtract]_vars

\* ------------------------------------------------ any schedule of records
\* A schedule as a caller may hand it to a validator: records in any order,
\* one task per position; where is <<machine, start, duration>>.
Record(i, where) ==
    [task |-> i - 1, job |-> 0, task_idx |-> i - 1, machine |-> where[1],
     start |-> where[2], duration |-> where[3], end |-> where[2] + where[3]]

Placements == Machines \X Times(MaxT) \X (1 .. MaxDur)

InitValidate ==
    /\ num_tasks = 0
    /\ T_max = MaxT
    /\ task_map = <<>>
    /\ var_index = <<>>
    /\ stage = "extracted"
    /\ \E len \in 0 .. MaxSched : \E where \in [1 .. len -> Placements] :
          schedule = [i \in 1 .. len |-> Record(i, where[i])]
    /\ Fresh

NextValidate ==
    \/ CheckMachineConflicts
    \/ ComputeMakespan

SpecValidate == InitValidate /\ [][NextValidate]_vars

\* =================================================================== claims
RECURSIVE Sum(_, _)
Sum(f, S) ==
    IF S = {} THEN 0
    ELSE LET x == CHOOSE y \in S : TRUE IN f[x] + Sum(f, S \ {x})

Binaries(nv) == [Indices(nv) -> {0, 1}]

\* sum_i Q[i,i]*x_i + sum_{i<j} Q[i,j]*x_i*x_j
EnergyUpper(Q0, x) ==
    LET terms == {ij \in DOMAIN Q0 : ij[1] <= ij[2]}
    IN  Sum([ij \in terms |-> Q0[ij] * x[ij[1]] * x[ij[2]]], terms)

\* sum_{i,j} Q[i,j]*x_i*x_j
EnergyAll(Q0, x) ==
    Sum([ij \in DOMAIN Q0 |-> Q0[ij] * x[ij[1]] * x[ij[2]]], DOMAIN Q0)

\* The value h/2 rounds to 1: it lies strictly between 1/2 and 3/2 (the two
\* ties go to the even neighbours 0 and 2).
IsOne(h) == 1 < h /\ h < 3

\* The start times of task k whose variable is set in the solver's output.
StartsSet(k) ==
    {t \in Times(T_max) : IsOne(result[var_index[<<k, t>>]])}

RecordsOf(k) == {i \in DOMAIN schedule : schedule[i].task = k}

\* The intervals [t1, t1 + d1) and [t2, t2 + d2) intersect.
Intersect(t1, d1, t2, d2) == t1 < t2 + d2 /\ t2 < t1 + d1

\* ---- C1 ----------------------------------------------------------------
\* C1 as stated: the extracted schedule holds at most one record per task,
\* and a task with a start variable at 1 has its record at the smallest such
\* start time.
C1_OneRecordPerTask ==
    stage = "extracted" =>
        \A k \in Tasks(num_tasks) :
            /\ Cardinality(RecordsOf(k)) <= 1
            /\ StartsSet(k) # {} =>
                  \E i \in RecordsOf(k) :
                      \A t \in StartsSet(k) : schedule[i].start <= t

\* C1 as amended: the extracted schedule holds exactly one record for every
\* (task, start time) whose variable rounds to 1 and no other record, so a
\* task has as many records as it has start variables at 1; each record
\* carries the task's fields of task_map, and the schedule is ordered by
\* start time.
C1_OneRecordPerSetVariable ==
    stage = "extracted" =>
        /\ \A k \in Tasks(num_tasks), t \in Times(T_max) :
              Cardinality({i \in RecordsOf(k) : schedule[i].start = t})
                  = (IF t \in StartsSet(k) THEN 1 ELSE 0)
        /\ \A i \in DOMAIN schedule :
              /\ schedule[i].task \in Tasks(num_tasks)
              /\ schedule[i].job = task_map[schedule[i].task][1]
              /\ schedule[i].duration = task_map[schedule[i].task][4]
              /\ schedule[i].end = schedule[i].start + schedule[i].duration
        /\ \A i, j \in DOMAIN schedule :
              i < j => schedule[i].start <= schedule[j].start

\* A task with two start variables at 1 has two records, next to an entry of
\* the output that is no integer.
C1_Witness ==
    /\ stage = "extracted"
    /\ \E k \in Tasks(num_tasks) :
          Cardinality(StartsSet(k)) >= 2 /\ Cardinality(RecordsOf(k)) >= 2
    /\ \E i \in DOMAIN result : result[i] % 2 = 1

\* ---- C2 ----------------------------------------------------------------
Ones(x) == Cardinality({i \in DOMAIN x : x[i] = 1})

\* C2: for one task and the unique-start term alone on a zero matrix, the
\* binary assignments of least energy are exactly those with one variable
\* set.
C2_OneHotMinimumIsExactlyOne ==
    (applied = {"one_hot"} /\ num_tasks = 1 /\ T_max >= 2) =>
        \A x \in Binaries(num_vars) :
            (\A y \in Binaries(num_vars) : EnergyUpper(Q, x) <= EnergyUpper(Q, y))
                <=> Ones(x) = 1

\* ---- C3 ----------------------------------------------------------------
\* C3: after the machine-conflict term alone on a zero matrix, every two
\* start times of two distinct tasks of one machine whose intervals
\* intersect (equal start times included) carry a positive entry in one of
\* the two directions.
C3_FullOverlapCovered ==
    (applied = {"machine"} /\ ~raised) =>
        \A k1, k2 \in Tasks(num_tasks) : \A t1, t2 \in Times(T_max) :
            (/\ k1 # k2
             /\ task_map[k1][3] = task_map[k2][3]
             /\ Intersect(t1, task_map[k1][4], t2, task_map[k2][4]))
            => \/ Q[<<var_index[<<k1, t1>>], var_index[<<k2, t2>>]>>] > 0
               \/ Q[<<var_index[<<k2, t2>>], var_index[<<k1, t1>>]>>] > 0

\* ---- C4 ----------------------------------------------------------------
\* The iterations of the machine-conflict loops that pass the three tests
\* and find both keys, which end on the entry ij.
PresentMachinePairs(ij) ==
    {s \in Tasks(num_tasks) \X Tasks(num_tasks) \X Times(T_max) \X Times(T_max) :
        /\ s[1] # s[2]
        /\ task_map[s[1]][3] = task_map[s[2]][3]
        /\ 0 < s[4] - s[3]
        /\ s[4] - s[3] < task_map[s[1]][4]
        /\ <<s[1], s[3]>> \in DOMAIN var_index
        /\ <<s[2], s[4]>> \in DOMAIN var_index
        /\ ij = <<var_index[<<s[1], s[3]>>], var_index[<<s[2], s[4]>>]>>}

\* C4: with a key absent from var_index, the machine-conflict builder raises
\* no error, skips the pairs that need the key and adds the penalty for
\* every pair whose two keys are present.
C4_MissingKeysTolerated ==
    (applied = {"machine"} /\ DOMAIN var_index # Keys(num_tasks, T_max)) =>
        /\ ~raised
        /\ \A ij \in DOMAIN Q :
              Q[ij] = penalty_config["machine"] * Cardinality(PresentMachinePairs(ij))

\* ---- C5 ----------------------------------------------------------------
OffDiagonal == {ij \in DOMAIN Q : ij[1] # ij[2]}

\* C5: once the four builders have run, no entry below the diagonal is set,
\* so the quadratic terms handed to the solver carry every pairwise penalty
\* of the matrix.
C5_OnlyUpperTriangle ==
    qp.built =>
        /\ \A ij \in DOMAIN Q : ij[1] > ij[2] => Q[ij] = 0
        /\ Sum(qp.quadratic, DOMAIN qp.quadratic) = Sum(Q, OffDiagonal)

\* ---- C6 ----------------------------------------------------------------
\* The four builders in the order of solve_and_visualize_jssp.
InSourceOrder(vi, tm, n, T, config) ==
    LET q1 == apply_unique_start_constraint(Zeros(n * T), vi, n, T, config["one_hot"]).Q
        q2 == apply_machine_conflict_constraint(q1, vi, tm, T, config["machine"]).Q
        q3 == apply_precedence_constraint(q2, vi, tm, T, config["precedence"]).Q
    IN  apply_makespan_objective(q3, vi, tm, n, T, config["makespan"]).Q

\* C6: whatever the order in which the four builders were called on the zero
\* matrix, the final matrix is the one the source order gives, entry for
\* entry.
C6_BuildersCommute ==
    applied = Builders =>
        Q = InSourceOrder(var_index, task_map, num_tasks, T_max, penalty_config)

\* The unique-start builder ran last (the source calls it first), on three
\* tasks of one job and one machine, where the machine and precedence terms
\* meet on an entry and the unique-start and makespan terms on the diagonal.
C6_Witness ==
    /\ applied = Builders
    /\ last = "one_hot"
    /\ num_tasks = 3
    /\ \A k \in Tasks(num_tasks) : task_map[k][1] = 0 /\ task_map[k][3] = 0
    /\ task_map[0][4] = 2
    /\ penalty_config = [b \in Builders |-> IF b \in {"machine", "makespan"} THEN 2 ELSE 1]
    /\ Q[<<var_index[<<0, 0>>], var_index[<<1, 1>>]>>] = 3
    /\ Q[<<var_index[<<0, 0>>], var_index[<<0, 0>>]>>] = 3

\* ---- C9 ----------------------------------------------------------------
\* k1 and k2 follow one another in the task ids of their job.
Consecutive(k1, k2) ==
    /\ k1 < k2
    /\ task_map[k1][1] = task_map[k2][1]
    /\ \A k \in Tasks(num_tasks) :
          (k1 < k /\ k < k2) => task_map[k][1] # task_map[k1][1]

\* C9: after the precedence term alone on a zero matrix with a complete
\* var_index, the entry of (k1, t1), (k2, t2) is the penalty when k1 and k2
\* are consecutive in a job and t2 < t1 + duration(k1), and every other
\* entry is 0.
C9_PrecedenceExactlyOnce ==
    applied = {"precedence"} =>
        \A ij \in DOMAIN Q :
            Q[ij] = IF \E k1, k2 \in Tasks(num_tasks) : \E t1, t2 \in Times(T_max) :
                          /\ Consecutive(k1, k2)
                          /\ t2 < t1 + task_map[k1][4]
                          /\ ij = <<var_index[<<k1, t1>>], var_index[<<k2, t2>>]>>
                    THEN penalty_config["precedence"]
                    ELSE 0

\* Tasks 0 and 2 of job 0 with task 1 of job 1 between them, under the
\* time-major index: the pair (0, 2) is penalised where the second starts
\* before the first has ended, and task 1 is not paired with task 0.
C9_Witness ==
    /\ applied = {"precedence"}
    /\ num_tasks = 3
    /\ T_max = 2
    /\ var_index = TimeMajor(num_tasks, T_max)
    /\ task_map[0][1] = 0 /\ task_map[1][1] = 1 /\ task_map[2][1] = 0
    /\ task_map[0][4] = 1
    /\ penalty_config["precedence"] = 2
    /\ Q[<<var_index[<<0, 0>>], var_index[<<2, 0>>]>>] = 2
    /\ Q[<<var_index[<<0, 0>>], var_index[<<2, 1>>]>>] = 0
    /\ Q[<<var_index[<<0, 0>>], var_index[<<1, 0>>]>>] = 0

\* ---- C7 ----------------------------------------------------------------
Overlapping(a, b) ==
    a.machine = b.machine /\ Intersect(a.start, a.duration, b.start, b.duration)

\* C7: check_machine_conflicts returns the empty list exactly when no two
\* records of one machine have intersecting intervals, and every pair it
\* returns is two records of the schedule, of one machine, whose intervals
\* intersect.
C7_ConflictsIffOverlap ==
    "machine" \in checked =>
        /\ conflicts = <<>> <=>
              ~\E i, j \in DOMAIN schedule : i # j /\ Overlapping(schedule[i], schedule[j])
        /\ \A c \in DOMAIN conflicts :
              \E i, j \in DOMAIN schedule :
                  /\ i # j
                  /\ conflicts[c] = <<schedule[i], schedule[j]>>
                  /\ Overlapping(schedule[i], schedule[j])

\* Three records handed over out of start order, two of which overlap while
\* the third, on the same machine, overlaps neither.
C7_Witness ==
    /\ "machine" \in checked
    /\ Len(schedule) = 3
    /\ schedule[1].start > schedule[2].start
    /\ \A i \in DOMAIN schedule : schedule[i].machine = 1
    /\ Len(conflicts) = 1
    /\ ~Overlapping(schedule[1], schedule[2])

\* ---- C8 ----------------------------------------------------------------
\* The pairs (k, c) for the tasks from `from` on whose number c of start
\* variables at 1 is not 1, by increasing k.
RECURSIVE ExpectedUnique(_)
ExpectedUnique(k) ==
    IF k >= num_tasks THEN <<>>
    ELSE (IF Cardinality(StartsSet(k)) # 1
          THEN <<(<<k, Cardinality(StartsSet(k))>>)>>
          ELSE <<>>) \o ExpectedUnique(k + 1)

\* C8: check_unique_start_constraint of the extracted schedule returns the
\* pairs (k, c) of the tasks whose number c of start variables at 1 is not
\* 1, for c = 0 as for c >= 2, and the empty list exactly when every task has
\* one start variable at 1.
C8_UniqueReportsEveryMiscount ==
    "one_hot" \in checked =>
        /\ unique_violations = ExpectedUnique(0)
        /\ unique_violations = <<>> <=>
              \A k \in Tasks(num_tasks) : Cardinality(StartsSet(k)) = 1

\* One task without a start, one with two and one with exactly one.
C8_Witness ==
    /\ "one_hot" \in checked
    /\ num_tasks = 3
    /\ Cardinality(StartsSet(0)) = 2
    /\ Cardinality(StartsSet(1)) = 1
    /\ Cardinality(StartsSet(2)) = 0
    /\ unique_violations = <<(<<0, 2>>), (<<2, 0>>)>>

\* ---- C10 ---------------------------------------------------------------
\* Within each job the task ids increase with task_idx.
IdsIncreaseWithIdx ==
    \A k1, k2 \in Tasks(num_tasks) :
        (k1 < k2 /\ task_map[k1][1] = task_map[k2][1])
            => task_map[k1][2] < task_map[k2][2]

\* The solver's answer has exactly one start variable at 1 per task.
CompleteOneHot ==
    /\ \A k \in Tasks(num_tasks) : Cardinality(StartsSet(k)) = 1

\* C10: when task ids increase with task_idx within each job and the output
\* sets exactly one start variable per task, the energy of the precedence
\* term alone is zero exactly when check_precedence_violations of the
\* extracted schedule is empty.
C10_BuilderAgreesWithValidator ==
    ("precedence" \in checked /\ IdsIncreaseWithIdx /\ CompleteOneHot) =>
        (EnergyAll(Q, [i \in DOMAIN result |-> result[i] \div 2]) = 0
            <=> violations = <<>>)

\* Three tasks of one job, one start each; the second starts before the
\* first has ended: one violation and a positive energy.
C10_Witness ==
    /\ "precedence" \in checked
    /\ IdsIncreaseWithIdx
    /\ CompleteOneHot
    /\ num_tasks = 3
    /\ \A k \in Tasks(num_tasks) : task_map[k][1] = 0
    /\ Len(violations) = 1
    /\ violations[1][1].task = 0
    /\ violations[1][2].task = 1
    /\ EnergyAll(Q, [i \in DOMAIN result |-> result[i] \div 2]) > 0


====
